---- MODULE Spec2Model ----
(***************************************************************************)
(* Model of video_concator (src/main.go): one run of main, from flag       *)
(* parsing to process exit.  Paths and manifest text are sequences of      *)
(* one-character strings so that Ext, ToLower, ReplaceAll and the          *)
(* manifest line format are computed character by character.               *)
(***************************************************************************)
EXTENDS Integers, Sequences, FiniteSets, TLC

VARIABLES
    pc,            \* position in main: "start", "toolcheck", "scan", "create",
                   \* "encoder", "run", "return", "exited"
    exitCode,      \* process exit status, -1 while main is running
    inputDir,      \* flag -dir (sequence of characters)
    outputFile,    \* flag -output
    encoder,       \* flag -encoder ("" when not given)
    lookPathOk,    \* exec.LookPath("ffmpeg"): "", "found" or "notfound"
    fs,            \* the directory tree filepath.Walk saw
    videos,        \* findAndSortVideos: videos after the walk, before sort.Slice
    sortedVideos,  \* findAndSortVideos: videos after sort.Slice
    videoFiles,    \* main: result of findAndSortVideos (absolute paths)
    findErr,       \* error findAndSortVideos returned: "", "walk" or "abs"
    tmpFile,       \* the temp list file: [exists, content]
    listFilePath,  \* main: path returned by createConcatListFile
    createErr,     \* main: whether createConcatListFile returned an error
    flushErr,      \* createConcatListFile: the error writer.Flush() returned
    goos,          \* runtime.GOOS as read by getDefaultEncoder ("" if not read)
    chosenEncoder, \* main: chosenEncoder
    cmdArgs,       \* argument vector handed to exec.Command
    manifestRead,  \* content of the list file when ffmpeg was started
    runResult,     \* outcome of cmd.Run: "", "exit0", "nonzero", "startfail"
    calls,         \* functions main has called so far, in order
    logged,        \* messages main has printed so far, in order
    escIn,         \* manifest-line specification: the path given
    escOut,        \* manifest-line specification: the line written
    escPc          \* manifest-line specification: "in", "out" ("off" in a run)

vars == <<pc, exitCode, inputDir, outputFile, encoder, lookPathOk, fs, videos,
          sortedVideos, videoFiles, findErr, tmpFile, listFilePath, createErr, flushErr, goos,
          chosenEncoder, cmdArgs, manifestRead, runResult, calls, logged,
          escIn, escOut, escPc>>

runVars == <<pc, exitCode, inputDir, outputFile, encoder, lookPathOk, fs, videos,
             sortedVideos, videoFiles, findErr, tmpFile, listFilePath, createErr, flushErr, goos,
             chosenEncoder, cmdArgs, manifestRead, runResult, calls, logged>>

escVars == <<escIn, escOut, escPc>>

----------------------------------------------------------------------------
(* Bounds *)

MaxTime == 2

MaxLen == 3

----------------------------------------------------------------------------
(* Characters *)

Uppers == <<"A","B","C","D","E","F","G","H","I","J","K","L","M",
            "N","O","P","Q","R","S","T","U","V","W","X","Y","Z">>

Lowers == <<"a","b","c","d","e","f","g","h","i","j","k","l","m",
            "n","o","p","q","r","s","t","u","v","w","x","y","z">>

Digits == <<"0","1","2","3","4","5","6","7","8","9">>

\* The characters used, in ascending byte order.
AsciiOrder == <<"\n", " ", "'", ".", "/">> \o Digits \o Uppers \o <<"\\">> \o Lowers

Code(c) == CHOOSE i \in DOMAIN AsciiOrder : AsciiOrder[i] = c

ToLowerChar(c) ==
    IF \E i \in DOMAIN Uppers : Uppers[i] = c
    THEN Lowers[CHOOSE i \in DOMAIN Uppers : Uppers[i] = c]
    ELSE c

ToLower(s) == [i \in 1..Len(s) |-> ToLowerChar(s[i])]

\* s < t as Go compares strings (byte-wise).
StringLess(s, t) ==
    \/ Len(s) < Len(t) /\ SubSeq(t, 1, Len(s)) = s
    \/ \E i \in 1..Len(s) :
          /\ i <= Len(t)
          /\ SubSeq(s, 1, i - 1) = SubSeq(t, 1, i - 1)
          /\ Code(s[i]) < Code(t[i])

----------------------------------------------------------------------------
(* The directory trees the walk is run on *)

Name_a_mov == <<"a", ".", "m", "o", "v">>
Name_B_MP4 == <<"B", ".", "M", "P", "4">>
Name_c_txt == <<"c", ".", "t", "x", "t">>
Name_d_mp4 == <<"d", ".", "m", "p", "4">>
Name_e_mkv == <<"e", ".", "m", "k", "v">>
Name_OB_avi == <<"O", "'", "B", ".", "a", "v", "i">>
Name_f == <<"f">>

\* Files by their components below the root; d.mp4 is a directory.
TopFiles == {<<Name_a_mov>>, <<Name_B_MP4>>, <<Name_c_txt>>}
SubDir == <<Name_d_mp4>>
SubFiles == {<<Name_d_mp4, Name_e_mkv>>, <<Name_d_mp4, Name_OB_avi>>,
             <<Name_d_mp4, Name_f>>}

\* The files whose modification time the walk function never reads keep
\* one modification time; the others take every time up to MaxTime.
OtherFiles == {<<Name_c_txt>>, <<Name_d_mp4, Name_f>>}

Trees ==
    UNION { UNION { { {[path |-> p, isDir |-> FALSE,
                        modTime |-> IF p \in OtherFiles THEN 1 ELSE mt[p]]
                          : p \in present}
                      \cup (IF hasDir
                            THEN {[path |-> SubDir, isDir |-> TRUE, modTime |-> 1]}
                            ELSE {})
                      : mt \in [present \ OtherFiles -> 1..MaxTime] }
                    : hasDir \in {d \in BOOLEAN : (present \cap SubFiles # {}) => d} }
            : present \in SUBSET (TopFiles \cup SubFiles) }

DirFlag == <<"v">>
OutFlag == <<"o", ".", "m", "p", "4">>
Cwd == <<"/", "w">>

----------------------------------------------------------------------------
(* path/filepath *)

RECURSIVE ExtFrom(_, _)
ExtFrom(path, i) ==
    IF i < 1 \/ path[i] = "/" THEN <<>>
    ELSE IF path[i] = "." THEN SubSeq(path, i, Len(path))
    ELSE ExtFrom(path, i - 1)

\* filepath.Ext: the suffix from the last dot of the last path element.
Ext(path) == ExtFrom(path, Len(path))

Join(dir, name) == dir \o <<"/">> \o name

\* filepath.Abs on a clean path.
Abs(path) == IF Len(path) > 0 /\ path[1] = "/" THEN path ELSE Join(Cwd, path)

RECURSIVE SortStrings(_)
SortStrings(S) ==
    IF S = {} THEN <<>>
    ELSE LET m == CHOOSE x \in S : \A y \in S \ {x} : StringLess(x, y)
         IN <<m>> \o SortStrings(S \ {m})

\* Names of the entries of directory comps, sorted (readDirNames).
ReadDirNames(tree, comps) ==
    SortStrings({n.path[Len(n.path)] : n \in
        {m \in tree : Len(m.path) = Len(comps) + 1
                      /\ SubSeq(m.path, 1, Len(comps)) = comps}})

Node(tree, comps) == CHOOSE n \in tree : n.path = comps

RECURSIVE WalkNames(_, _, _, _)
RECURSIVE WalkVisit(_, _, _, _)
\* filepath.walk: the entry itself, then, for a directory, its entries in
\* name order.  Returns the calls made to the walk function, in order.
WalkVisit(tree, path, comps, info) ==
    <<[path |-> path, info |-> info]>>
    \o (IF info.isDir
        THEN WalkNames(tree, path, comps, ReadDirNames(tree, comps))
        ELSE <<>>)
WalkNames(tree, path, comps, names) ==
    IF names = <<>> THEN <<>>
    ELSE WalkVisit(tree, Join(path, Head(names)), Append(comps, Head(names)),
                   Node(tree, Append(comps, Head(names))))
         \o WalkNames(tree, path, comps, Tail(names))

Walk(tree, root) ==
    WalkVisit(tree, root, <<>>, [path |-> <<>>, isDir |-> TRUE, modTime |-> 1])

----------------------------------------------------------------------------
(* findAndSortVideos *)

supportedExtensions ==
    {<<".", "m", "p", "4">>, <<".", "m", "o", "v">>,
     <<".", "m", "k", "v">>, <<".", "a", "v", "i">>}

\* A faulty walk function: the extension is compared as written.
WalkFunc_CaseSensitive(vs, visit) ==
    IF ~visit.info.isDir /\ Ext(visit.path) \in supportedExtensions
    THEN Append(vs, [Path |-> visit.path, ModTime |-> visit.info.modTime])
    ELSE vs

\* The walk function of findAndSortVideos, called with err == nil.
WalkFunc(vs, visit) ==
    IF ~visit.info.isDir /\ ToLower(Ext(visit.path)) \in supportedExtensions
    THEN Append(vs, [Path |-> visit.path, ModTime |-> visit.info.modTime])
    ELSE vs

RECURSIVE CollectVideos(_, _)
CollectVideos(vs, visits) ==
    IF visits = <<>> THEN vs
    ELSE CollectVideos(WalkFunc(vs, Head(visits)), Tail(visits))

\* The less function handed to sort.Slice.
Less(a, b) == a.ModTime < b.ModTime

\* sort.Slice does not promise stability: any arrangement of the slice
\* that is ordered by Less is a possible result.
SortSlice(vs) ==
    LET n == Len(vs)
        perms == {p \in [1..n -> 1..n] : \A i, j \in 1..n : i # j => p[i] # p[j]}
    IN { s \in {[i \in 1..n |-> vs[p[i]]] : p \in perms} :
            \A i, j \in 1..n : i < j => ~Less(s[j], s[i]) }

AbsPaths(vs) == [i \in 1..Len(vs) |-> Abs(vs[i].Path)]

----------------------------------------------------------------------------
(* createConcatListFile *)

NoPath == <<>>
TempName == <<"/", "t", "m", "p", "/", "c", "o", "n", "c", "a", "t", "-",
              "l", "i", "s", "t", "-", "1", ".", "t", "x", "t">>

RECURSIVE EscapeQuotes_Backslash(_)
\* A faulty escape: a backslash put before each single quote.
EscapeQuotes_Backslash(s) ==
    IF s = <<>> THEN <<>>
    ELSE (IF Head(s) = "'" THEN <<"\\", "'">> ELSE <<Head(s)>>)
         \o EscapeQuotes_Backslash(Tail(s))

RECURSIVE EscapeQuotes(_)
\* strings.ReplaceAll(file, "'", "'\\''")
EscapeQuotes(s) ==
    IF s = <<>> THEN <<>>
    ELSE (IF Head(s) = "'" THEN <<"'", "\\", "'", "'">> ELSE <<Head(s)>>)
         \o EscapeQuotes(Tail(s))

\* fmt.Sprintf("file '%s'\n", escapedPath)
FormatLine(escapedPath) ==
    <<"f", "i", "l", "e", " ", "'">> \o escapedPath \o <<"'", "\n">>

RECURSIVE WriteLoop(_, _, _, _)
\* The loop over files and the final Flush, from line i on.  buffered: the
\* lines held by the bufio.Writer; onDisk: the lines that reached the file.
\* A WriteString either stays in the buffer, or first empties the buffer
\* into the file, or fails doing so (some buffered lines may have got
\* through).  The error of the final Flush is dropped.
WriteLoop(files, i, buffered, onDisk) ==
    IF i > Len(files)
    THEN {[created |-> TRUE, content |-> onDisk \o buffered, name |-> TempName,
           err |-> FALSE, flushErr |-> FALSE]}
         \cup {[created |-> TRUE, content |-> onDisk \o SubSeq(buffered, 1, k),
                name |-> TempName, err |-> FALSE, flushErr |-> TRUE]
               : k \in 0..(Len(buffered) - 1)}
    ELSE LET line == FormatLine(EscapeQuotes(files[i]))
         IN WriteLoop(files, i + 1, Append(buffered, line), onDisk)
            \cup WriteLoop(files, i + 1, <<line>>, onDisk \o buffered)
            \cup {[created |-> TRUE, content |-> onDisk \o SubSeq(buffered, 1, k),
                   name |-> NoPath, err |-> TRUE, flushErr |-> FALSE]
                  : k \in 0..Len(buffered)}

\* Every (file state, return value) createConcatListFile can end with.
createConcatListFile(files) ==
    {[created |-> FALSE, content |-> <<>>, name |-> NoPath,
      err |-> TRUE, flushErr |-> FALSE]}
    \cup WriteLoop(files, 1, <<>>, <<>>)

----------------------------------------------------------------------------
(* getDefaultEncoder, isFFmpegAvailable, the ffmpeg command *)

GOOSValues == {"windows", "darwin", "linux"}

\* A faulty mapping: the darwin case is missing.
getDefaultEncoder_NoDarwin(os) ==
    CASE os = "windows" -> "hevc_nvenc"
      [] OTHER -> "libx265"

getDefaultEncoder(os) ==
    CASE os = "windows" -> "hevc_nvenc"
      [] os = "darwin" -> "hevc_videotoolbox"
      [] OTHER -> "libx265"

\* A faulty check: the error of exec.LookPath is not looked at.
isFFmpegAvailable_Unchecked(lookPath) == TRUE

\* err == nil for the error exec.LookPath returned
isFFmpegAvailable(lookPath) == lookPath = "found"

Resolution == "1920x1080"
Framerate == 60

Command(listPath, enc, out) ==
    <<"ffmpeg", "-f", "concat", "-safe", "0", "-i", listPath,
      "-vf", <<"scale=", Resolution, ",fps=", Framerate>>,
      "-c:v", enc, "-c:a", "aac", "-b:a", "192k", "-y", out>>

\* err != nil for the error cmd.Run returned
RunFailed(result) == result # "exit0"

\* A faulty check: an empty result is let through.
NoVideos_Never(files) == FALSE

\* len(videoFiles) == 0
NoVideos(files) == Len(files) = 0

\* chosenEncoder == ""
NoOverride(enc) == enc = ""

----------------------------------------------------------------------------
(* main *)

NoFile == [exists |-> FALSE, content |-> <<>>]

Init ==
    /\ pc = "start"
    /\ exitCode = -1
    /\ inputDir = <<>>
    /\ outputFile = <<>>
    /\ encoder = ""
    /\ lookPathOk = ""
    /\ fs = {}
    /\ videos = <<>>
    /\ sortedVideos = <<>>
    /\ videoFiles = <<>>
    /\ findErr = ""
    /\ tmpFile = NoFile
    /\ listFilePath = NoPath
    /\ createErr = FALSE
    /\ flushErr = FALSE
    /\ goos = ""
    /\ chosenEncoder = ""
    /\ cmdArgs = <<>>
    /\ manifestRead = <<>>
    /\ runResult = ""
    /\ calls = <<>>
    /\ logged = <<>>
    /\ escIn = <<>>
    /\ escOut = <<>>
    /\ escPc = "off"

\* log.Fatal / log.Fatalf / os.Exit(1): the process ends at once; deferred
\* calls do not run.
Fatal(msgs) ==
    /\ pc' = "exited"
    /\ exitCode' = 1
    /\ logged' = logged \o msgs

\* flag.Parse and the check of the required flags
ParseFlags ==
    /\ pc = "start"
    /\ \E d \in {<<>>, DirFlag}, o \in {<<>>, OutFlag}, e \in {"", "libx264"} :
          /\ inputDir' = d
          /\ outputFile' = o
          /\ encoder' = e
          /\ IF d = <<>> \/ o = <<>>
             THEN Fatal(<<"usage">>)
             ELSE /\ pc' = "toolcheck"
                  /\ UNCHANGED <<exitCode, logged>>
    /\ UNCHANGED <<lookPathOk, fs, videos, sortedVideos, videoFiles, findErr,
                   tmpFile, listFilePath, createErr, flushErr, goos,
                   chosenEncoder, cmdArgs, manifestRead, runResult, calls>>
    /\ UNCHANGED escVars

ToolCheck ==
    /\ pc = "toolcheck"
    /\ calls' = Append(calls, "isFFmpegAvailable")
    /\ \E found \in {"found", "notfound"} :
          /\ lookPathOk' = found
          /\ IF ~isFFmpegAvailable(found)
             THEN Fatal(<<"fatal: ffmpeg not found">>)
             ELSE /\ pc' = "scan"
                  /\ UNCHANGED <<exitCode, logged>>
    /\ UNCHANGED <<inputDir, outputFile, encoder, fs, videos, sortedVideos,
                   videoFiles, findErr, tmpFile, listFilePath, createErr,
                   flushErr, goos, chosenEncoder, cmdArgs, manifestRead,
                   runResult>>
    /\ UNCHANGED escVars

\* findAndSortVideos(*inputDir) and main's checks of its result.  walkErr:
\* an lstat or readdir error reached the walk function, which returns it.
\* absErr: filepath.Abs failed (only called when there is a video).
FindAndSortVideos ==
    /\ pc = "scan"
    /\ calls' = Append(calls, "findAndSortVideos")
    /\ \E tree \in Trees, walkErr \in BOOLEAN, absErr \in BOOLEAN :
          /\ fs' = tree
          /\ IF walkErr
             THEN /\ ~absErr
                  /\ videos' = <<>>
                  /\ sortedVideos' = <<>>
                  /\ videoFiles' = <<>>
                  /\ findErr' = "walk"
                  /\ Fatal(<<"searching", "fatal: search failed">>)
             ELSE LET vs == CollectVideos(<<>>, Walk(tree, inputDir))
                  IN /\ videos' = vs
                     /\ \E s \in SortSlice(vs) :
                           /\ sortedVideos' = s
                           /\ IF absErr
                              THEN /\ Len(s) > 0
                                   /\ videoFiles' = <<>>
                                   /\ findErr' = "abs"
                                   /\ Fatal(<<"searching", "fatal: search failed">>)
                              ELSE /\ videoFiles' = AbsPaths(s)
                                   /\ findErr' = ""
                                   /\ IF NoVideos(AbsPaths(s))
                                      THEN Fatal(<<"searching", "fatal: no videos">>)
                                      ELSE /\ pc' = "create"
                                           /\ logged' = logged \o <<"searching", "found">>
                                           /\ UNCHANGED exitCode
    /\ UNCHANGED <<inputDir, outputFile, encoder, lookPathOk, tmpFile,
                   listFilePath, createErr, flushErr, goos, chosenEncoder,
                   cmdArgs, manifestRead, runResult>>
    /\ UNCHANGED escVars

\* createConcatListFile(videoFiles), main's check of its error, and the
\* registration of the deferred os.Remove.
CreateConcatListFile ==
    /\ pc = "create"
    /\ calls' = Append(calls, "createConcatListFile")
    /\ \E r \in createConcatListFile(videoFiles) :
          /\ tmpFile' = [exists |-> r.created, content |-> r.content]
          /\ listFilePath' = r.name
          /\ createErr' = r.err
          /\ flushErr' = r.flushErr
          /\ IF r.err
             THEN Fatal(<<"fatal: list file">>)
             ELSE /\ pc' = "encoder"
                  /\ UNCHANGED <<exitCode, logged>>
    /\ UNCHANGED <<inputDir, outputFile, encoder, lookPathOk, fs, videos,
                   sortedVideos, videoFiles, findErr, goos, chosenEncoder,
                   cmdArgs, manifestRead, runResult>>
    /\ UNCHANGED escVars

ChooseEncoder ==
    /\ pc = "encoder"
    /\ IF NoOverride(encoder)
       THEN \E os \in GOOSValues :
               /\ goos' = os
               /\ chosenEncoder' = getDefaultEncoder(os)
               /\ calls' = Append(calls, "getDefaultEncoder")
       ELSE /\ chosenEncoder' = encoder
            /\ UNCHANGED <<goos, calls>>
    /\ logged' = Append(logged, "encoder")
    /\ pc' = "run"
    /\ UNCHANGED <<exitCode, inputDir, outputFile, encoder, lookPathOk, fs,
                   videos, sortedVideos, videoFiles, findErr, tmpFile,
                   listFilePath, createErr, flushErr, cmdArgs, manifestRead,
                   runResult>>
    /\ UNCHANGED escVars

\* exec.Command, cmd.Run and main's check of its error
RunFFmpeg ==
    /\ pc = "run"
    /\ calls' = Append(calls, "cmd.Run")
    /\ cmdArgs' = Command(listFilePath, chosenEncoder, outputFile)
    /\ manifestRead' = tmpFile.content
    /\ \E result \in {"exit0", "nonzero", "startfail"} :
          /\ runResult' = result
          /\ IF RunFailed(result)
             THEN Fatal(<<"start", "fatal: ffmpeg failed">>)
             ELSE /\ pc' = "return"
                  /\ logged' = logged \o <<"start", "completed">>
                  /\ UNCHANGED exitCode
    /\ UNCHANGED <<inputDir, outputFile, encoder, lookPathOk, fs, videos,
                   sortedVideos, videoFiles, findErr, tmpFile, listFilePath,
                   createErr, flushErr, goos, chosenEncoder>>
    /\ UNCHANGED escVars

\* main returns: the deferred os.Remove(listFilePath) runs, exit status 0
MainReturn ==
    /\ pc = "return"
    /\ calls' = Append(calls, "os.Remove")
    /\ tmpFile' = NoFile
    /\ pc' = "exited"
    /\ exitCode' = 0
    /\ UNCHANGED <<inputDir, outputFile, encoder, lookPathOk, fs, videos,
                   sortedVideos, videoFiles, findErr, listFilePath, createErr,
                   flushErr, goos, chosenEncoder, cmdArgs, manifestRead,
                   runResult, logged>>
    /\ UNCHANGED escVars

Next ==
    \/ ParseFlags
    \/ ToolCheck
    \/ FindAndSortVideos
    \/ CreateConcatListFile
    \/ ChooseEncoder
    \/ RunFFmpeg
    \/ MainReturn

Spec == Init /\ [][Next]_vars

----------------------------------------------------------------------------
(* The manifest line of one path, for every path over a small alphabet *)

EscAlphabet == {"a", "'", "\\", "/"}

OBrienPath == <<"O", "'", "B", "r", "i", "e", "n", "/",
                "c", "l", "i", "p", ".", "m", "p", "4">>

EscPaths == UNION {[1..n -> EscAlphabet] : n \in 0..MaxLen} \cup {OBrienPath}

\* No run of main here: only the list file of one path is written.
InitLine ==
    /\ pc = "exited"
    /\ exitCode = -1
    /\ inputDir = <<>>
    /\ outputFile = <<>>
    /\ encoder = ""
    /\ lookPathOk = ""
    /\ fs = {}
    /\ videos = <<>>
    /\ sortedVideos = <<>>
    /\ videoFiles = <<>>
    /\ findErr = ""
    /\ tmpFile = NoFile
    /\ listFilePath = NoPath
    /\ createErr = FALSE
    /\ flushErr = FALSE
    /\ goos = ""
    /\ chosenEncoder = ""
    /\ cmdArgs = <<>>
    /\ manifestRead = <<>>
    /\ runResult = ""
    /\ calls = <<>>
    /\ logged = <<>>
    /\ escIn \in EscPaths
    /\ escOut = <<>>
    /\ escPc = "in"

\* createConcatListFile(<<escIn>>) with no I/O failure: the text in the file
WriteOneLine ==
    /\ escPc = "in"
    /\ \E r \in createConcatListFile(<<escIn>>) :
          /\ r.created /\ ~r.err /\ ~r.flushErr
          /\ escOut' = r.content[1]
    /\ escPc' = "out"
    /\ UNCHANGED escIn
    /\ UNCHANGED runVars

NextLine == WriteOneLine

SpecLine == InitLine /\ [][NextLine]_vars

----------------------------------------------------------------------------
(* Helpers of the properties *)

Range(f) == {f[i] : i \in DOMAIN f}

Called(fn) == fn \in Range(calls)

Last(q) == q[Len(q)]

FatalMessages ==
    {"fatal: ffmpeg not found", "fatal: search failed", "fatal: no videos",
     "fatal: list file", "fatal: ffmpeg failed"}

\* The run has ended with a fatal message and a nonzero exit status.
EndedFatal ==
    /\ pc = "exited"
    /\ exitCode = 1
    /\ logged # <<>>
    /\ Last(logged) \in FatalMessages

\* The scan of findAndSortVideos ran to its end.
ScanCompleted == Called("findAndSortVideos") /\ findErr # "walk"

VideoExtensions ==
    {<<".", "m", "p", "4">>, <<".", "m", "o", "v">>,
     <<".", "m", "k", "v">>, <<".", "a", "v", "i">>}

\* name has a last dot, and from there on it reads, lower-cased, as a
\* video extension
HasVideoExtension(name) ==
    \E i \in 1..Len(name) :
        /\ name[i] = "."
        /\ \A j \in (i + 1)..Len(name) : name[j] # "."
        /\ ToLower(SubSeq(name, i, Len(name))) \in VideoExtensions

\* The files of the tree that are videos.
VideoNodes(tree) ==
    {n \in tree : ~n.isDir /\ HasVideoExtension(n.path[Len(n.path)])}

RECURSIVE PathOf(_, _)
PathOf(root, comps) ==
    IF comps = <<>> THEN root
    ELSE PathOf(root \o <<"/">> \o Head(comps), Tail(comps))

RECURSIVE Unquote(_, _, _, _)
\* The '...' quoting rule read from position i: quoted segments are taken
\* literally and concatenated, backslash outside quotes makes the next
\* character literal.  ok is FALSE for an unterminated quote or escape.
Unquote(s, i, inQuote, acc) ==
    IF i > Len(s) THEN [ok |-> ~inQuote, value |-> acc]
    ELSE IF inQuote
         THEN IF s[i] = "'" THEN Unquote(s, i + 1, FALSE, acc)
              ELSE Unquote(s, i + 1, TRUE, Append(acc, s[i]))
         ELSE IF s[i] = "'" THEN Unquote(s, i + 1, TRUE, acc)
              ELSE IF s[i] = "\\"
                   THEN IF i + 1 > Len(s) THEN [ok |-> FALSE, value |-> acc]
                        ELSE Unquote(s, i + 2, FALSE, Append(acc, s[i + 1]))
                   ELSE Unquote(s, i + 1, FALSE, Append(acc, s[i]))

FilePrefix == <<"f", "i", "l", "e", " ">>

\* text is a manifest line, newline included, whose quoted part reads back
\* as path
LineNames(text, path) ==
    /\ Len(text) >= Len(FilePrefix) + 3
    /\ text[Len(text)] = "\n"
    /\ SubSeq(text, 1, Len(FilePrefix)) = FilePrefix
    /\ Unquote(SubSeq(text, Len(FilePrefix) + 1, Len(text) - 1), 1, FALSE, <<>>)
           = [ok |-> TRUE, value |-> path]

QuotesBefore(path, i) == Cardinality({j \in 1..(i - 1) : path[j] = "'"})

\* esc is path with every single quote replaced by the four characters
\* ' \ ' ' and every other character kept, stated position by position
IsEscapeOf(esc, path) ==
    /\ Len(esc) = Len(path) + 3 * QuotesBefore(path, Len(path) + 1)
    /\ \A i \in 1..Len(path) :
          LET at == i + 3 * QuotesBefore(path, i)
          IN IF path[i] = "'"
             THEN SubSeq(esc, at, at + 3) = <<"'", "\\", "'", "'">>
             ELSE esc[at] = path[i]

----------------------------------------------------------------------------
(* Properties *)

\* C1: when the list file was created and the ffmpeg invocation then failed
\* (not started, or nonzero exit), the list file no longer exists once the
\* run has ended.
C1_ListFileRemovedAfterFailedRun ==
    (pc = "exited" /\ Called("cmd.Run") /\ runResult \in {"nonzero", "startfail"})
        => ~tmpFile.exists

\* C2: the tool check comes before the scan and before any list file; when
\* ffmpeg is not on the search path the run ends with a nonzero status
\* without a scan and without a list file.
C2_ToolCheckFirst ==
    /\ lookPathOk = "notfound" =>
          /\ EndedFatal
          /\ Last(logged) = "fatal: ffmpeg not found"
          /\ calls = <<"isFFmpegAvailable">>
          /\ fs = {}
          /\ ~tmpFile.exists
    /\ (Called("findAndSortVideos") \/ Called("createConcatListFile")
            \/ tmpFile.exists \/ pc \in {"scan", "create"}) =>
          /\ calls[1] = "isFFmpegAvailable"
          /\ lookPathOk = "found"

C2_Witness ==
    pc = "exited" /\ lookPathOk = "notfound" /\ inputDir = DirFlag

IndexIn(vs, v) == CHOOSE i \in 1..Len(vs) : vs[i] = v

\* C3: the order findAndSortVideos produces is a permutation of the scanned
\* entries, ascending by modification time, and entries with equal times
\* keep the order of the scan.
C3_SortIsStable ==
    (ScanCompleted /\ findErr = "") =>
        /\ Len(sortedVideos) = Len(videos)
        /\ Range(sortedVideos) = Range(videos)
        /\ videoFiles = [i \in 1..Len(sortedVideos) |-> Abs(sortedVideos[i].Path)]
        /\ \A i, j \in 1..Len(sortedVideos) :
              i < j =>
                 /\ sortedVideos[i].ModTime <= sortedVideos[j].ModTime
                 /\ sortedVideos[i].ModTime = sortedVideos[j].ModTime
                       => IndexIn(videos, sortedVideos[i]) < IndexIn(videos, sortedVideos[j])

\* C4: in a run that reaches the invocation, the list file ffmpeg is given
\* has one line per scanned video, the i-th line naming the i-th sorted
\* path, nothing duplicated or dropped from scan to list file.
C4_ManifestIsSortedVideos ==
    Called("cmd.Run") =>
        /\ Len(manifestRead) = Len(videoFiles)
        /\ \A i \in 1..Len(manifestRead) :
              i <= Len(videoFiles) /\ LineNames(manifestRead[i], videoFiles[i])
        /\ Len(videoFiles) = Cardinality(VideoNodes(fs))
        /\ Range(videoFiles) = {Abs(PathOf(inputDir, n.path)) : n \in VideoNodes(fs)}

\* C5: createConcatListFile reports an error on every I/O failure, the one
\* of the final flush included; it returns no path with a nil error unless
\* all lines are in the file.
C5_WriteFailureReported ==
    Called("createConcatListFile") =>
        /\ flushErr => createErr
        /\ (~createErr /\ tmpFile.exists) => Len(tmpFile.content) = Len(videoFiles)

\* C6: success (message and exit status 0) only after the tool check, the
\* scan, the list file and the invocation all succeeded and ffmpeg exited
\* with 0; a stage that fails (an I/O failure while the list file is
\* written is one) ends the run fatally with a nonzero status and is the
\* last stage executed.
C6_SuccessOnlyAfterEveryStage ==
    /\ pc = "exited" => exitCode \in {0, 1}
    /\ pc # "exited" => exitCode = -1
    /\ (exitCode = 0 \/ "completed" \in Range(logged)) =>
          /\ inputDir # <<>> /\ outputFile # <<>>
          /\ lookPathOk = "found"
          /\ findErr = "" /\ videoFiles # <<>>
          /\ ~createErr /\ ~flushErr /\ listFilePath # NoPath
          /\ runResult = "exit0"
          /\ FatalMessages \cap Range(logged) = {}
    /\ exitCode = 0 => Last(logged) = "completed"
    /\ pc = "exited" =>
          /\ lookPathOk = "notfound" =>
                EndedFatal /\ Last(calls) = "isFFmpegAvailable"
          /\ (findErr # "" \/ (ScanCompleted /\ videoFiles = <<>>)) =>
                EndedFatal /\ Last(calls) = "findAndSortVideos"
          /\ (createErr \/ flushErr) =>
                EndedFatal /\ Last(calls) = "createConcatListFile"
          /\ runResult \in {"nonzero", "startfail"} =>
                EndedFatal /\ Last(calls) = "cmd.Run"

\* C7: the line written for a path is file '<escaped>' where <escaped> is
\* the path with each single quote replaced by '\'' ; read by the '...'
\* quoting rule the quoted part gives back the path; O'Brien/clip.mp4
\* yields file 'O'\''Brien/clip.mp4'.
C7_QuoteRoundTrip ==
    escPc = "out" =>
        /\ Len(escOut) >= 8
        /\ escOut[Len(escOut)] = "\n"
        /\ SubSeq(escOut, 1, 6) = FilePrefix \o <<"'">>
        /\ escOut[Len(escOut) - 1] = "'"
        /\ IsEscapeOf(SubSeq(escOut, 7, Len(escOut) - 2), escIn)
        /\ LineNames(escOut, escIn)
        /\ escIn = OBrienPath =>
              escOut = <<"f", "i", "l", "e", " ", "'", "O", "'", "\\", "'", "'",
                         "B", "r", "i", "e", "n", "/", "c", "l", "i", "p", ".",
                         "m", "p", "4", "'", "\n">>

C7_Witness ==
    escPc = "out" /\ Len(escIn) = 3 /\ escIn[2] = "'" /\ escIn[3] = "\\"

\* C8: the scan collects exactly the non-directory entries, at any depth,
\* whose lower-cased extension is .mp4, .mov, .mkv or .avi, each once.
C8_ScanCollectsExactlyVideos ==
    ScanCompleted =>
        /\ Len(videos) = Cardinality(VideoNodes(fs))
        /\ Range(videos) =
              {[Path |-> PathOf(inputDir, n.path), ModTime |-> n.modTime]
                  : n \in VideoNodes(fs)}

C8_Witness ==
    /\ ScanCompleted
    /\ {<<Name_B_MP4>>, <<Name_c_txt>>, SubDir, <<Name_d_mp4, Name_e_mkv>>,
        <<Name_d_mp4, Name_f>>} \subseteq {n.path : n \in fs}
    /\ Len(videos) = 2

\* C9: the codec given to ffmpeg is the -encoder value when one is given,
\* and else the platform default: windows -> hevc_nvenc, darwin ->
\* hevc_videotoolbox, any other -> libx265; the default is looked up only
\* when no -encoder value is given, and once.
C9_EncoderChoice ==
    /\ Called("cmd.Run") =>
          /\ cmdArgs[10] = "-c:v"
          /\ cmdArgs[11] = (IF encoder # "" THEN encoder
                            ELSE IF goos = "windows" THEN "hevc_nvenc"
                            ELSE IF goos = "darwin" THEN "hevc_videotoolbox"
                            ELSE "libx265")
    /\ Called("getDefaultEncoder") => encoder = "" /\ goos # ""
    /\ (encoder = "" /\ pc \in {"run", "return"}) => Called("getDefaultEncoder")
    /\ Cardinality({i \in DOMAIN calls : calls[i] = "getDefaultEncoder"}) <= 1

C9_Witness ==
    /\ Called("cmd.Run") /\ encoder = "" /\ goos = "darwin"
    /\ cmdArgs[11] = "hevc_videotoolbox"

\* C10: a scan that succeeds and finds no video returns an empty result
\* without error; main then ends fatally with a nonzero status, no list
\* file is created and ffmpeg is not run.
C10_ZeroMatchIsFatal ==
    (ScanCompleted /\ VideoNodes(fs) = {}) =>
        /\ findErr = ""
        /\ videoFiles = <<>>
        /\ EndedFatal
        /\ Last(logged) = "fatal: no videos"
        /\ ~Called("createConcatListFile")
        /\ ~Called("cmd.Run")
        /\ ~tmpFile.exists
        /\ cmdArgs = <<>>

C10_Witness ==
    /\ ScanCompleted /\ VideoNodes(fs) = {} /\ fs # {}
    /\ pc = "exited"

====
